---- MODULE Spec2Model ----
(***************************************************************************)
(* Model of the word search solver in src/puzzle.py (class Puzzle).        *)
(*                                                                         *)
(* A Puzzle object holds the grid (rows), the word list (words) and, when  *)
(* the file had an "Answer Key:" line, the answer key (answers).  The      *)
(* operations are get_cell, find_rest, find_word and solve.  A word is a   *)
(* sequence of one-character strings; a Python dict is a sequence of       *)
(* <<key, value>> pairs with distinct keys, in insertion order.            *)
(***************************************************************************)
EXTENDS Integers, Sequences, FiniteSets, TLC

VARIABLES
    rows,         \* self.rows: the grid, a sequence of rows of cells
    words,        \* self.words: the words to find
    has_answers,  \* whether the attribute self.answers exists
    answers,      \* self.answers: the answer key, a dict word -> location
    op,           \* the method last called
    arg,          \* its argument
    result,       \* its outcome: a value returned or an exception raised
    calls_left    \* how many more calls the caller makes

vars == <<rows, words, has_answers, answers, op, arg, result, calls_left>>

(***************************************************************************)
(* Bounds of the model.                                                    *)
(***************************************************************************)
MaxN == 3
MaxB == 3
MaxWordLen == 3
MaxWords == 2
MaxCalls == 2

\* The smallest grid the loader accepts: a row of one cell ends the grid.
MinN == 2

Alphabet == {"A", "B"}

(***************************************************************************)
(* Python values.                                                          *)
(***************************************************************************)
None == "None"

Return(v) == [kind |-> "return", exc |-> "", value |-> v]

Raise(e, msg) == [kind |-> "raise", exc |-> e, value |-> msg]

\* seq[i] for a Python list: a negative index counts from the end.
PyIndex(seq, i) ==
    IF 0 <= i /\ i < Len(seq) THEN seq[i + 1]
    ELSE IF i < 0 /\ -i <= Len(seq) THEN seq[Len(seq) + i + 1]
    ELSE "IndexError"

\* The str of a word: its characters joined.
RECURSIVE Join(_)
Join(word) == IF word = <<>> THEN "" ELSE Head(word) \o Join(Tail(word))

(***************************************************************************)
(* Puzzle.DIRECTIONS, in the dict's insertion order.                       *)
(***************************************************************************)
\* A slip in the table: SW given the column step of SE.
DIRECTIONS_SWStepsEast ==
    << [name |-> "N",  x |-> 0,  y |-> -1],
       [name |-> "NE", x |-> 1,  y |-> -1],
       [name |-> "E",  x |-> 1,  y |-> 0],
       [name |-> "SE", x |-> 1,  y |-> 1],
       [name |-> "S",  x |-> 0,  y |-> 1],
       [name |-> "SW", x |-> 1,  y |-> 1],
       [name |-> "W",  x |-> -1, y |-> 0],
       [name |-> "NW", x |-> -1, y |-> -1] >>

DIRECTIONS ==
    << [name |-> "N",  x |-> 0,  y |-> -1],
       [name |-> "NE", x |-> 1,  y |-> -1],
       [name |-> "E",  x |-> 1,  y |-> 0],
       [name |-> "SE", x |-> 1,  y |-> 1],
       [name |-> "S",  x |-> 0,  y |-> 1],
       [name |-> "SW", x |-> -1, y |-> 1],
       [name |-> "W",  x |-> -1, y |-> 0],
       [name |-> "NW", x |-> -1, y |-> -1] >>

NumDirections == Len(DIRECTIONS)

(***************************************************************************)
(* Puzzle.size, Puzzle.get_cell                                            *)
(***************************************************************************)
size(rs) == Len(rs)

\* get_cell without the test for a negative column: Python's indexing then
\* counts from the end of the row.
get_cell_NoNegativeColumnTest(rs, x, y) ==
    IF y < 0 \/ x >= size(rs) \/ y >= size(rs)
    THEN None
    ELSE PyIndex(PyIndex(rs, y), x)

get_cell(rs, x, y) ==
    IF x < 0 \/ y < 0 \/ x >= size(rs) \/ y >= size(rs)
    THEN None
    ELSE PyIndex(PyIndex(rs, y), x)

(***************************************************************************)
(* Puzzle.find_rest: TRUE when the rest of the word is spelled from the    *)
(* cell after (x, y) in direction d (an index of DIRECTIONS); FALSE stands *)
(* for the falsy None the code returns.                                    *)
(***************************************************************************)
\* find_rest stepping to the next cell before it tests for an empty rest.
RECURSIVE find_rest_StepsFirst(_, _, _, _, _)
find_rest_StepsFirst(rs, d, x, y, rest) ==
    LET nx == x + DIRECTIONS[d].x
        ny == y + DIRECTIONS[d].y
        cell == get_cell(rs, nx, ny)
    IN  IF cell = None \/ cell = "" THEN FALSE
        ELSE IF rest = <<>> THEN TRUE
        ELSE IF cell # Head(rest) THEN FALSE
        ELSE find_rest_StepsFirst(rs, d, nx, ny, Tail(rest))

RECURSIVE find_rest(_, _, _, _, _)
find_rest(rs, d, x, y, rest) ==
    IF rest = <<>> THEN TRUE
    ELSE LET nx == x + DIRECTIONS[d].x
             ny == y + DIRECTIONS[d].y
             cell == get_cell(rs, nx, ny)
         IN  IF cell = None \/ cell = "" \/ cell # Head(rest)
             THEN FALSE
             ELSE find_rest(rs, d, nx, ny, Tail(rest))

(***************************************************************************)
(* The f-strings of find_word.                                             *)
(***************************************************************************)
\* The location with the column before the row.
Location_ColumnFirst(d, x, y) ==
    DIRECTIONS[d].name \o " @ (" \o ToString(x + 1) \o ", " \o ToString(y + 1) \o ")"

Location(d, x, y) ==
    DIRECTIONS[d].name \o " @ (" \o ToString(y + 1) \o ", " \o ToString(x + 1) \o ")"

NotFound(word) == Raise("Exception", "word '" \o Join(word) \o "' not found")

(***************************************************************************)
(* Puzzle.find_word: the loop over directions at one start cell, and the   *)
(* row-major loop over start cells.                                        *)
(***************************************************************************)
\* The directions tried from the last to the first.
RECURSIVE TryDirections_Reversed(_, _, _, _, _)
TryDirections_Reversed(rs, word, x, y, d) ==
    IF d > NumDirections THEN None
    ELSE IF find_rest(rs, NumDirections + 1 - d, x, y, Tail(word))
         THEN Location(NumDirections + 1 - d, x, y)
    ELSE TryDirections_Reversed(rs, word, x, y, d + 1)

RECURSIVE TryDirections(_, _, _, _, _)
TryDirections(rs, word, x, y, d) ==
    IF d > NumDirections THEN None
    ELSE IF find_rest(rs, d, x, y, Tail(word)) THEN Location(d, x, y)
    ELSE TryDirections(rs, word, x, y, d + 1)

\* The scan with range(self.size - 1) for the columns: the last column is
\* never a start cell.
RECURSIVE ScanFrom_SkipsLastColumn(_, _, _, _)
ScanFrom_SkipsLastColumn(rs, word, x, y) ==
    IF y >= size(rs) THEN NotFound(word)
    ELSE IF x >= size(rs) - 1 THEN ScanFrom_SkipsLastColumn(rs, word, 0, y + 1)
    ELSE IF word = <<>> THEN Raise("IndexError", "string index out of range")
    ELSE LET found == IF get_cell(rs, x, y) = Head(word)
                      THEN TryDirections(rs, word, x, y, 1)
                      ELSE None
         IN  IF found # None THEN Return(found)
             ELSE ScanFrom_SkipsLastColumn(rs, word, x + 1, y)

RECURSIVE ScanFrom(_, _, _, _)
ScanFrom(rs, word, x, y) ==
    IF y >= size(rs) THEN NotFound(word)
    ELSE IF x >= size(rs) THEN ScanFrom(rs, word, 0, y + 1)
    ELSE IF word = <<>> THEN Raise("IndexError", "string index out of range")
    ELSE LET found == IF get_cell(rs, x, y) = Head(word)
                      THEN TryDirections(rs, word, x, y, 1)
                      ELSE None
         IN  IF found # None THEN Return(found)
             ELSE ScanFrom(rs, word, x + 1, y)

find_word(rs, word) == ScanFrom(rs, word, 0, 0)

(***************************************************************************)
(* Python dicts: insertion-ordered, one entry per key, compared by ==      *)
(* without regard to order.                                                *)
(***************************************************************************)
DictKeys(d) == {d[i][1] : i \in DOMAIN d}

DictGet(d, k) == d[CHOOSE i \in DOMAIN d : d[i][1] = k][2]

DictSet(d, k, v) ==
    IF k \in DictKeys(d)
    THEN [i \in DOMAIN d |-> IF d[i][1] = k THEN <<k, v>> ELSE d[i]]
    ELSE Append(d, <<k, v>>)

\* A comparison that looks up only the computed words in the key.
DictEq_ComputedWordsOnly(a, b) ==
    /\ DictKeys(a) \subseteq DictKeys(b)
    /\ \A k \in DictKeys(a) : DictGet(a, k) = DictGet(b, k)

DictEq(a, b) ==
    /\ DictKeys(a) = DictKeys(b)
    /\ \A k \in DictKeys(a) : DictGet(a, k) = DictGet(b, k)

(***************************************************************************)
(* Puzzle.solve: the dict comprehension over self.words, then the assert   *)
(* against self.answers, an attribute that exists only when the file had   *)
(* an answer key.                                                          *)
(***************************************************************************)
\* The comprehension taking the words from the last to the first.
RECURSIVE Comprehension_LastFirst(_, _, _)
Comprehension_LastFirst(rs, ws, acc) ==
    IF ws = <<>> THEN Return(acc)
    ELSE LET r == find_word(rs, ws[Len(ws)])
         IN  IF r.kind = "raise" THEN r
             ELSE Comprehension_LastFirst(rs, SubSeq(ws, 1, Len(ws) - 1),
                                          DictSet(acc, ws[Len(ws)], r.value))

RECURSIVE Comprehension(_, _, _)
Comprehension(rs, ws, acc) ==
    IF ws = <<>> THEN Return(acc)
    ELSE LET r == find_word(rs, Head(ws))
         IN  IF r.kind = "raise" THEN r
             ELSE Comprehension(rs, Tail(ws), DictSet(acc, Head(ws), r.value))

solve(rs, ws, has, key) ==
    LET computed == Comprehension(rs, ws, <<>>)
    IN  IF computed.kind = "raise" THEN computed
        ELSE IF ~has
             THEN Raise("AttributeError", "'Puzzle' object has no attribute 'answers'")
        ELSE IF ~DictEq(computed.value, key) THEN Raise("AssertionError", "")
        ELSE computed

(***************************************************************************)
(* The inputs: square grids over Alphabet, words, word lists, answer keys. *)
(***************************************************************************)
\* Square grids of side n with the letter B in at most MaxB cells.
GridsOfSide(n) ==
    {g \in [1..n -> [1..n -> Alphabet]] :
        Cardinality({c \in (1..n) \X (1..n) : g[c[1]][c[2]] = "B"}) <= MaxB}

Grids == UNION {GridsOfSide(n) : n \in MinN..MaxN}

Words == UNION {[1..n -> Alphabet] : n \in 1..MaxWordLen}

Coords == (0 - (MaxN + 1))..MaxN

ListWords == {<<"A">>, <<"A", "B">>, <<"B", "B">>}

WordLists == UNION {[1..n -> ListWords] : n \in 1..MaxWords}

\* What an answer key says of a word: where the word is first found in the
\* grid, or "E @ (1, 1)".
KeyValues(rs, w) ==
    {Location(3, 0, 0)}
        \cup (IF find_word(rs, w).kind = "return" THEN {find_word(rs, w).value} ELSE {})

KeyDicts(rs) ==
    LET entries == UNION {{<<w, v>> : v \in KeyValues(rs, w)} : w \in ListWords}
    IN  UNION {{d \in [1..n -> entries] : \A i, j \in 1..n : d[i][1] = d[j][1] => i = j}
               : n \in 0..MaxWords}

(***************************************************************************)
(* The state after construction.  Under Init the caller makes one call on  *)
(* any grid; under InitSolve it makes MaxCalls calls on a smallest grid    *)
(* with any word list and answer key.                                      *)
(***************************************************************************)
NoCall == [kind |-> "none", exc |-> "", value |-> ""]

Init ==
    /\ rows \in Grids
    /\ words = << <<"A">> >>
    /\ has_answers = FALSE
    /\ answers = <<>>
    /\ op = "init"
    /\ arg = <<>>
    /\ result = NoCall
    /\ calls_left = 1

InitSolve ==
    /\ rows \in GridsOfSide(MinN)
    /\ has_answers \in BOOLEAN
    /\ answers \in (IF has_answers THEN KeyDicts(rows) ELSE {<<>>})
    /\ words \in WordLists
    /\ op = "init"
    /\ arg = <<>>
    /\ result = NoCall
    /\ calls_left = MaxCalls

(***************************************************************************)
(* The calls.  None of the methods assigns to an attribute of the puzzle.  *)
(***************************************************************************)
\* A find_word that marks the top-left cell of the grid as used.
FindWordCall_MarksGrid(W) ==
    \E w \in W :
        /\ calls_left > 0
        /\ calls_left' = calls_left - 1
        /\ op' = "find_word"
        /\ arg' = w
        /\ result' = find_word(rows, w)
        /\ rows' = [rows EXCEPT ![1][1] = "B"]
        /\ UNCHANGED <<words, has_answers, answers>>

FindWordCall(W) ==
    \E w \in W :
        /\ calls_left > 0
        /\ calls_left' = calls_left - 1
        /\ op' = "find_word"
        /\ arg' = w
        /\ result' = find_word(rows, w)
        /\ UNCHANGED <<rows, words, has_answers, answers>>

GetCellCall ==
    \E x \in Coords, y \in Coords :
        /\ calls_left > 0
        /\ calls_left' = calls_left - 1
        /\ op' = "get_cell"
        /\ arg' = <<x, y>>
        /\ result' = Return(get_cell(rows, x, y))
        /\ UNCHANGED <<rows, words, has_answers, answers>>

SolveCall ==
    /\ calls_left > 0
    /\ calls_left' = calls_left - 1
    /\ op' = "solve"
    /\ arg' = <<>>
    /\ result' = solve(rows, words, has_answers, answers)
    /\ UNCHANGED <<rows, words, has_answers, answers>>

Next == FindWordCall(Words) \/ GetCellCall \/ SolveCall

Spec == Init /\ [][Next]_vars

NextSolve == FindWordCall(ListWords) \/ SolveCall

SolveSpec == InitSolve /\ [][NextSolve]_vars

(***************************************************************************)
(* What the claims speak of, stated without the solver's operators: the    *)
(* compass, the reported string, and a word being spelled inside the grid. *)
(***************************************************************************)
Compass ==
    << [name |-> "N",  dx |-> 0,  dy |-> -1],
       [name |-> "NE", dx |-> 1,  dy |-> -1],
       [name |-> "E",  dx |-> 1,  dy |-> 0],
       [name |-> "SE", dx |-> 1,  dy |-> 1],
       [name |-> "S",  dx |-> 0,  dy |-> 1],
       [name |-> "SW", dx |-> -1, dy |-> 1],
       [name |-> "W",  dx |-> -1, dy |-> 0],
       [name |-> "NW", dx |-> -1, dy |-> -1] >>

Dirs == DOMAIN Compass

Cells == 0..(Len(rows) - 1)

\* "D @ (r, c)"
Encoded(d, r, c) ==
    Compass[d].name \o " @ (" \o ToString(r) \o ", " \o ToString(c) \o ")"

\* Every letter of w lies inside the grid, on the line from column x, row y
\* (0-indexed) in direction d, and is the letter of that cell.
Spells(rs, w, x, y, d) ==
    \A i \in 1..Len(w) :
        LET cx == x + (i - 1) * Compass[d].dx
            cy == y + (i - 1) * Compass[d].dy
        IN  /\ 0 <= cx /\ cx < Len(rs)
            /\ 0 <= cy /\ cy < Len(rs)
            /\ rs[cy + 1][cx + 1] = w[i]

\* The matches of w, each as <<<<y, x>>, d>>.
Matches(rs, w) ==
    LET starts == {c \in (0..(Len(rs) - 1)) \X (0..(Len(rs) - 1)) :
                      w # <<>> /\ rs[c[1] + 1][c[2] + 1] = w[1]}
    IN  {m \in starts \X Dirs : Spells(rs, w, m[1][2], m[1][1], m[2])}

\* Row ascending, then column ascending, then direction in compass order.
Before(a, b) ==
    \/ a[1][1] < b[1][1]
    \/ a[1][1] = b[1][1] /\ a[1][2] < b[1][2]
    \/ a[1] = b[1] /\ a[2] < b[2]

LocationOf(m) == Encoded(m[2], m[1][1] + 1, m[1][2] + 1)

NotFoundError(w) ==
    [kind |-> "raise", exc |-> "Exception", value |-> "word '" \o Join(w) \o "' not found"]

Returned(v) == [kind |-> "return", exc |-> "", value |-> v]

(***************************************************************************)
(* C1: for a non-empty word that matches somewhere, find_word returns the  *)
(* match that is first by row, then column, then direction in the order    *)
(* N, NE, E, SE, S, SW, W, NW.                                             *)
(***************************************************************************)
C1_FirstMatchReturned ==
    op = "find_word" =>
        LET ms == Matches(rows, arg)
        IN  ms # {} =>
                \E m \in ms :
                    /\ \A n \in ms : ~Before(n, m)
                    /\ result = Returned(LocationOf(m))

\* A word spelled from one cell in two directions and also from a later cell:
\* the earliest cell and the earlier direction are reported.
C1_Witness ==
    /\ op = "find_word"
    /\ Len(arg) = 3
    /\ \E m, n, k \in Matches(rows, arg) :
          /\ m[1] = n[1] /\ m[2] < n[2]
          /\ Before(n, k) /\ k[1] # m[1]
          /\ \A j \in Matches(rows, arg) : ~Before(j, m)
          /\ result = Returned(LocationOf(m))

(***************************************************************************)
(* C2: a returned "D @ (r, c)" has 1 <= r, c <= N, row before column, and  *)
(* every letter of the word lies inside the grid on the line from (r, c)   *)
(* in direction D and equals the cell there.                               *)
(***************************************************************************)
C2_LocationInGridAndSpelled ==
    op = "find_word" /\ result.kind = "return" =>
        \E r \in 1..Len(rows), c \in 1..Len(rows), d \in Dirs :
            /\ Spells(rows, arg, c - 1, r - 1, d)
            /\ result.value = Encoded(d, r, c)

\* A match reported off the diagonal (row # column), from a border cell.
C2_Witness ==
    /\ op = "find_word"
    /\ Len(arg) >= 2
    /\ \E d \in Dirs, r \in 1..Len(rows), c \in 1..Len(rows) :
          /\ r # c
          /\ result = Returned(Encoded(d, r, c))
          /\ Spells(rows, arg, c - 1, r - 1, d)
          /\ ~Spells(rows, arg, r - 1, c - 1, d)

(***************************************************************************)
(* C3: find_word raises the not-found error, carrying the word, exactly    *)
(* when no start cell and direction spell the whole word inside the grid;  *)
(* otherwise it returns.                                                   *)
(***************************************************************************)
C3_NotFoundIffAbsent ==
    op = "find_word" =>
        /\ (Matches(rows, arg) = {}) <=> (result.kind = "raise")
        /\ result.kind = "raise" => result = NotFoundError(arg)
        /\ result.kind \in {"raise", "return"}

\* The first two letters are spelled up to the edge of the grid, the third
\* would lie outside it: not found.
C3_Witness ==
    /\ op = "find_word"
    /\ result = NotFoundError(arg)
    /\ Len(arg) = 3
    /\ \E x, y \in Cells, d \in Dirs :
          /\ Spells(rows, SubSeq(arg, 1, 2), x, y, d)
          /\ LET ox == x + 2 * Compass[d].dx
                 oy == y + 2 * Compass[d].dy
             IN  ox < 0 \/ oy < 0 \/ ox >= Len(rows) \/ oy >= Len(rows)

(***************************************************************************)
(* C4 as stated: whenever the word is spelled at (x, y) in direction d,    *)
(* find_word returns exactly that (d, x + 1, y + 1).                       *)
(***************************************************************************)
C4_AsStated ==
    op = "find_word" =>
        \A m \in Matches(rows, arg) : result = Returned(LocationOf(m))

(***************************************************************************)
(* C4 amended: a word placed at (x, y) in direction d is found (no error), *)
(* and the result is exactly that placement unless the grid also spells    *)
(* the word at an earlier cell or from the same cell in an earlier         *)
(* direction, in which case the result is such an earlier match.           *)
(***************************************************************************)
C4_PlacementRecovered ==
    op = "find_word" =>
        LET ms == Matches(rows, arg)
        IN  \A m \in ms :
                /\ result.kind = "return"
                /\ \/ result.value = LocationOf(m)
                   \/ \E n \in ms : Before(n, m) /\ result.value = LocationOf(n)

\* A word of two letters or more recovered in the last direction, NW.
C4_Witness ==
    /\ op = "find_word"
    /\ Len(arg) >= 2
    /\ \E m \in Matches(rows, arg) :
          /\ m[2] = 8
          /\ result = Returned(LocationOf(m))

(***************************************************************************)
(* C8: get_cell(x, y) returns rows[y][x] exactly when 0 <= x < N and       *)
(* 0 <= y < N; for every other pair it returns None: no error and no       *)
(* other cell.                                                             *)
(***************************************************************************)
C8_GetCellBounds ==
    op = "get_cell" =>
        LET x == arg[1]
            y == arg[2]
        IN  IF 0 <= x /\ x < Len(rows) /\ 0 <= y /\ y < Len(rows)
            THEN result = Returned(rows[y + 1][x + 1])
            ELSE result = Returned("None")

\* A negative column with a row inside the grid: None.
C8_Witness ==
    /\ op = "get_cell"
    /\ arg[1] = -1
    /\ arg[2] \in Cells
    /\ result = Returned("None")

(***************************************************************************)
(* C10: for a word of one character, find_word returns "N @ (r, c)" for    *)
(* the first cell in row-major order holding the character, also in the    *)
(* top row, and raises not-found only when no cell holds it.               *)
(***************************************************************************)
C10_SingleCharacter ==
    op = "find_word" /\ Len(arg) = 1 =>
        LET holds == {c \in Cells \X Cells : rows[c[1] + 1][c[2] + 1] = arg[1]}
        IN  IF holds = {}
            THEN result = NotFoundError(arg)
            ELSE \E c \in holds :
                    /\ \A e \in holds : ~(e[1] < c[1] \/ (e[1] = c[1] /\ e[2] < c[2]))
                    /\ result = Returned(Encoded(1, c[1] + 1, c[2] + 1))

\* The character is in the top row, where North leaves the grid.
C10_Witness ==
    /\ op = "find_word"
    /\ Len(arg) = 1
    /\ \E c \in 1..Len(rows) :
          /\ rows[1][c] = arg[1]
          /\ result = Returned(Encoded(1, 1, c))

(***************************************************************************)
(* What the claims about solve speak of: the entries of a mapping, the     *)
(* first match of a word, the words in the order first requested.          *)
(***************************************************************************)
Entries(d) == {d[i] : i \in DOMAIN d}

AllPresent == \A i \in DOMAIN words : Matches(rows, words[i]) # {}

FirstLocation(rs, w) ==
    LET ms == Matches(rs, w)
    IN  LocationOf(CHOOSE m \in ms : \A n \in ms : ~Before(n, m))

ExpectedEntries == {<<words[i], FirstLocation(rows, words[i])>> : i \in DOMAIN words}

RECURSIVE Distinct(_)
Distinct(ws) ==
    IF ws = <<>> THEN <<>>
    ELSE LET front == Distinct(SubSeq(ws, 1, Len(ws) - 1))
             last == ws[Len(ws)]
         IN  IF \E i \in DOMAIN front : front[i] = last THEN front
             ELSE Append(front, last)

(***************************************************************************)
(* C5: with an answer key, solve returns the computed Solution only if it  *)
(* has the same words and the same Location for every word as the key;     *)
(* when every word is in the grid and the key differs in an entry, or has  *)
(* an extra or a missing word, solve fails the validation.                 *)
(***************************************************************************)
C5_ValidatedAgainstKey ==
    op = "solve" /\ has_answers =>
        /\ result.kind = "return" => Entries(result.value) = Entries(answers)
        /\ AllPresent =>
              IF Entries(answers) = ExpectedEntries
              THEN result.kind = "return" /\ Entries(result.value) = ExpectedEntries
              ELSE result.kind = "raise" /\ result.exc = "AssertionError"

\* The key holds every computed entry and one word more: validation fails.
C5_Witness ==
    /\ op = "solve"
    /\ has_answers
    /\ AllPresent
    /\ ExpectedEntries \subseteq Entries(answers)
    /\ ExpectedEntries # Entries(answers)
    /\ result.kind = "raise"
    /\ result.exc = "AssertionError"

(***************************************************************************)
(* C6: without an answer key, and every word in the grid, solve skips the  *)
(* validation and returns the computed Solution.                           *)
(***************************************************************************)
C6_KeyOptional ==
    op = "solve" /\ ~has_answers /\ AllPresent =>
        /\ result.kind = "return"
        /\ Entries(result.value) = ExpectedEntries

(***************************************************************************)
(* C7 as stated: the returned Solution has one entry per requested word,   *)
(* in the order requested, each with find_word's Location, also when a     *)
(* word is requested more than once.                                       *)
(***************************************************************************)
C7_AsStated ==
    op = "solve" /\ result.kind = "return" =>
        /\ Len(result.value) = Len(words)
        /\ \A i \in DOMAIN words :
              result.value[i] = <<words[i], find_word(rows, words[i]).value>>

(***************************************************************************)
(* C7 amended: the returned Solution has one entry per distinct requested  *)
(* word, in the order the words were first requested, each with            *)
(* find_word's Location; a word requested again adds no entry.             *)
(***************************************************************************)
C7_OneEntryPerDistinctWord ==
    op = "solve" /\ result.kind = "return" =>
        LET ds == Distinct(words)
        IN  /\ Len(result.value) = Len(ds)
            /\ \A i \in DOMAIN ds :
                  /\ find_word(rows, ds[i]).kind = "return"
                  /\ result.value[i] = <<ds[i], find_word(rows, ds[i]).value>>

\* A list that requests one word twice, solved and validated.
C7_Witness ==
    /\ op = "solve"
    /\ result.kind = "return"
    /\ Len(words) > Len(result.value)

(***************************************************************************)
(* C9: no call changes the grid, the word list or the answer key, and the  *)
(* outcome of every find_word call, whatever calls came before it, is the  *)
(* one the grid and the word determine: the first match's Location, or     *)
(* the not-found error.                                                    *)
(***************************************************************************)
C9_PureFindWord ==
    [][/\ rows' = rows
       /\ words' = words
       /\ has_answers' = has_answers
       /\ answers' = answers
       /\ op' = "find_word" =>
             result' = IF Matches(rows, arg') = {}
                       THEN NotFoundError(arg')
                       ELSE Returned(FirstLocation(rows, arg'))
       /\ op = "find_word" /\ op' = "find_word" /\ arg' = arg => result' = result]_vars

\* The last of MaxCalls calls is a find_word that returns.
C9_Witness ==
    /\ op = "find_word"
    /\ calls_left = 0
    /\ MaxCalls >= 2
    /\ result.kind = "return"

====
